---- MODULE Spec2Model ----
(***************************************************************************)
(* Model of src/lib.rs: the owned pointer Ptr<T: Alloc>, the Alloc         *)
(* capability and the impl_ptr! delegation macro.                          *)
(*                                                                         *)
(* A handle slot h stands for one Ptr<T> instance.  ptr[h] is the value of *)
(* the instance (its only field, .0), life[h] says whether the instance    *)
(* has not been constructed yet ("Unborn"), is a live owner ("Owning") or  *)
(* is gone ("Released": it was moved into into_raw and forgotten, or its   *)
(* owner went out of scope and Drop ran).  Rust lets no operation touch a  *)
(* moved or dropped value, so every operation on a handle requires         *)
(* life[h] = "Owning".                                                     *)
(*                                                                         *)
(* Alloc::free has no body in the repository (it is a trait method); it is *)
(* modelled by the instrumented implementation of the scenarios: a release *)
(* counter per address.  The caller of the unsafe from_raw is not          *)
(* constrained: it may pass null, an address that already has an owner, or *)
(* an address already released.                                            *)
(***************************************************************************)
EXTENDS Integers, FiniteSets

\* ---------------------------------------------------------------- bounds
\* number of Ptr instances constructed in one run
NumHandles == 2
\* number of foreign instances (non-null addresses)
NumAddrs == 2

\* the null raw pointer
Null == 0

Handles == 1..NumHandles
Addr == 1..NumAddrs
RawPtrs == Addr \cup {Null}
\* the content of a pointee: the operations never inspect it, two values
\* tell a store from no store
Values == {0, 1}
NoVal == Null - 1

VARIABLES
  ptr,        \* ptr[h]: the Ptr value of slot h, a record [p0 |-> raw address]
  life,       \* life[h]: "Unborn" | "Owning" | "Released"
  counter,    \* counter[a]: number of Alloc::free(a) calls so far
  pointee,    \* pointee[a]: the value stored in the instance at address a
  raws,       \* addresses the caller holds as plain raw pointers (no owner)
  last,       \* the last operation: [op, h, val (address returned or referred to),
              \*   rd (value read through the borrow), wr (value stored through it)]
  \* history variables (observed, never read by the operations)
  how,        \* how[h]: "none" | "into_raw" | "drop": what ended the instance
  wrappedWith,\* wrappedWith[h]: the argument from_raw was called with
  freed,      \* freed[h]: number of Alloc::free calls made through h
  freeArgs,   \* freeArgs[h]: the arguments of those calls
  extFreed,   \* extFreed[a]: releases of a made by the caller itself
  breach      \* some from_raw call broke the unsafe precondition

vars == <<ptr, life, counter, pointee, raws, last, how, wrappedWith,
          freed, freeArgs, extFreed, breach>>

hist == <<how, wrappedWith, freed, freeArgs, extFreed, breach>>

\* ------------------------------------------------------- pure functions

\* Alloc::free(this), instrumented: one more release of `this`
free(c, this) == [c EXCEPT ![this] = @ + 1]

\* faulty variant: the argument is dropped and a null Ptr is built
from_raw_null(raw) == [p0 |-> Null]

\* Ptr::from_raw: Ptr(raw)
from_raw(raw) == [p0 |-> raw]

\* Ptr::into_raw, the value returned: let raw = ptr.0; ...; raw
into_raw(p) == p.p0

\* faulty variant: as_ptr returns a null pointer
as_ptr_null(p) == Null

\* Ptr::as_ptr: ptr.0
as_ptr(p) == p.p0

\* Ptr::as_raw: ptr.0
as_raw(p) == p.p0

\* mem::transmute(self.0): the reference has the bits of the raw pointer
transmute(raw, isMut) == [target |-> raw, mut |-> isMut]

\* Deref::deref
deref(p) == transmute(p.p0, FALSE)

\* DerefMut::deref_mut
deref_mut(p) == transmute(p.p0, TRUE)

\* AsRef::as_ref: &**self
as_ref(p) == deref(p)

\* AsMut::as_mut: &mut **self
as_mut(p) == deref_mut(p)

\* Borrow::borrow: &**self
borrow(p) == deref(p)

\* BorrowMut::borrow_mut: &mut **self
borrow_mut(p) == deref_mut(p)

\* faulty variant: drop does not release
drop_noop(c, p) == c

\* faulty variant: drop releases twice
drop_twice(c, p) == free(free(c, p.p0), p.p0)

\* faulty variant: drop releases another instance
drop_neighbour(c, p) == free(c, (p.p0 % NumAddrs) + 1)

\* Drop::drop: Alloc::free(self.0)
drop(c, p) == free(c, p.p0)

\* impl_ptr!: the wrapper's field 0 is the Ptr; each method forwards to it
wrapper_as_ref(w) == as_ref(w.f0)

wrapper_deref(w) == deref(w.f0)

\* faulty variant: the mutable borrow of the wrapper lands on another instance
wrapper_deref_mut_stray(w) == transmute((w.f0.p0 % NumAddrs) + 1, TRUE)

wrapper_deref_mut(w) == deref_mut(w.f0)

\* a wrapper struct is a newtype whose field 0 is the Ptr of slot h
Wrapper(h) == [f0 |-> ptr[h]]

\* ------------------------------------------------------------- memory

\* an address has a pointee while it is non-null and not yet released
Valid(a) == a \in Addr /\ counter[a] = 0

\* reading through a reference: the pointee's value; through a null or
\* dangling reference the read is undefined: any value
ReadVia(r) == IF Valid(r.target) THEN {pointee[r.target]} ELSE Values

\* writing through a mutable reference: stored in the pointee; through a
\* dangling reference the store may or may not land; through null nothing
\* of the instances is written
WriteVia(r, v) ==
  IF Valid(r.target) THEN {[pointee EXCEPT ![r.target] = v]}
  ELSE IF r.target \in Addr THEN {pointee, [pointee EXCEPT ![r.target] = v]}
  ELSE {pointee}

RECURSIVE SumTo(_, _)
SumTo(c, n) == IF n < Null THEN 0 ELSE c[n] + SumTo(c, n - 1)

Total(c) == SumTo(c, NumAddrs)

\* ---------------------------------------------------------------- Init

Init ==
  /\ ptr = [h \in Handles |-> [p0 |-> Null]]
  /\ life = [h \in Handles |-> "Unborn"]
  /\ counter = [a \in RawPtrs |-> 0]
  /\ pointee = [a \in Addr |-> 0]
  /\ raws = Addr
  /\ last = [op |-> "init", h |-> 0, val |-> NoVal, rd |-> NoVal, wr |-> NoVal]
  /\ how = [h \in Handles |-> "none"]
  /\ wrappedWith = [h \in Handles |-> NoVal]
  /\ freed = [h \in Handles |-> 0]
  /\ freeArgs = [h \in Handles |-> {}]
  /\ extFreed = [a \in RawPtrs |-> 0]
  /\ breach = FALSE

\* ------------------------------------------------------------- actions

\* unsafe fn from_raw(raw) -> Ptr<T>: no check of any kind.  Slots are
\* numbered in the order the Ptr instances are constructed.
FromRaw(h, raw) ==
  /\ life[h] = "Unborn"
  /\ \A g \in Handles : g < h => life[g] # "Unborn"
  /\ ptr' = [ptr EXCEPT ![h] = from_raw(raw)]
  /\ life' = [life EXCEPT ![h] = "Owning"]
  /\ raws' = raws \ {raw}
  /\ last' = [op |-> "from_raw", h |-> h, val |-> NoVal, rd |-> NoVal, wr |-> NoVal]
  /\ wrappedWith' = [wrappedWith EXCEPT ![h] = raw]
  /\ breach' = (breach \/ raw \notin raws)
  /\ UNCHANGED <<counter, pointee, how, freed, freeArgs, extFreed>>

\* faulty variant: the forget is missing: the parameter is dropped when into_raw returns
MemForget_dropping(h) ==
  /\ life' = [life EXCEPT ![h] = "Released"]
  /\ counter' = drop(counter, ptr[h])
  /\ freed' = [freed EXCEPT ![h] = @ + 1]
  /\ freeArgs' = [freeArgs EXCEPT ![h] = @ \cup {ptr[h].p0}]

\* faulty variant: into_raw borrows its argument: the instance stays a live owner
MemForget_alive(h) ==
  UNCHANGED <<life, counter, freed, freeArgs>>

\* mem::forget(ptr): the instance is gone and its Drop does not run
MemForget(h) ==
  /\ life' = [life EXCEPT ![h] = "Released"]
  /\ UNCHANGED <<counter, freed, freeArgs>>

\* fn into_raw(ptr: Ptr<T>) -> *mut T
IntoRaw(h) ==
  /\ life[h] = "Owning"
  /\ MemForget(h)
  /\ last' = [op |-> "into_raw", h |-> h, val |-> into_raw(ptr[h]), rd |-> NoVal, wr |-> NoVal]
  /\ raws' = raws \cup ({into_raw(ptr[h])} \ {Null})
  /\ how' = [how EXCEPT ![h] = "into_raw"]
  /\ UNCHANGED <<ptr, pointee, wrappedWith, extFreed, breach>>

\* the owner goes out of scope: Drop::drop runs, then the instance is gone
Drop(h) ==
  /\ life[h] = "Owning"
  /\ counter' = drop(counter, ptr[h])
  /\ life' = [life EXCEPT ![h] = "Released"]
  /\ last' = [op |-> "drop", h |-> h, val |-> NoVal, rd |-> NoVal, wr |-> NoVal]
  /\ how' = [how EXCEPT ![h] = "drop"]
  /\ freed' = [freed EXCEPT ![h] = @ + Total(counter') - Total(counter)]
  /\ freeArgs' = [freeArgs EXCEPT ![h] = @ \cup {a \in RawPtrs : counter'[a] # counter[a]}]
  /\ UNCHANGED <<ptr, pointee, raws, wrappedWith,
                 extFreed, breach>>

\* an operation that only returns an address
Peek(name, h, raw) ==
  /\ life[h] = "Owning"
  /\ last' = [op |-> name, h |-> h, val |-> raw, rd |-> NoVal, wr |-> NoVal]
  /\ UNCHANGED <<ptr, life, counter, pointee, raws, hist>>

AsPtr(h) == Peek("peek", h, as_ptr(ptr[h]))

\* faulty variant: as_raw takes the pointer out of the handle
AsRaw_taking(h) ==
  /\ life[h] = "Owning"
  /\ life' = [life EXCEPT ![h] = "Released"]
  /\ last' = [op |-> "peek", h |-> h, val |-> as_raw(ptr[h]), rd |-> NoVal, wr |-> NoVal]
  /\ UNCHANGED <<ptr, counter, pointee, raws, hist>>

AsRaw(h) == Peek("peek", h, as_raw(ptr[h]))

\* a shared borrow of the pointee, read by the caller
SharedBorrow(name, h, r) ==
  /\ life[h] = "Owning"
  /\ \E v \in ReadVia(r) :
       last' = [op |-> name, h |-> h, val |-> r.target, rd |-> v, wr |-> NoVal]
  /\ UNCHANGED <<ptr, life, counter, pointee, raws, hist>>

\* an exclusive borrow of the pointee, through which the caller stores v
MutBorrow(name, h, r, v) ==
  /\ life[h] = "Owning"
  /\ pointee' \in WriteVia(r, v)
  /\ last' = [op |-> name, h |-> h, val |-> r.target, rd |-> NoVal, wr |-> v]
  /\ UNCHANGED <<ptr, life, counter, raws, how, wrappedWith,
                 freed, freeArgs, extFreed, breach>>

Deref(h) == SharedBorrow("shared", h, deref(ptr[h]))

AsRef(h) == SharedBorrow("shared", h, as_ref(ptr[h]))

Borrow(h) == SharedBorrow("shared", h, borrow(ptr[h]))

DerefMut(h, v) == MutBorrow("excl", h, deref_mut(ptr[h]), v)

AsMut(h, v) == MutBorrow("excl", h, as_mut(ptr[h]), v)

BorrowMut(h, v) == MutBorrow("excl", h, borrow_mut(ptr[h]), v)

\* the methods impl_ptr! generates for a wrapper struct
WrapperAsRef(h) ==
  SharedBorrow("w_shared", h, wrapper_as_ref(Wrapper(h)))

WrapperDeref(h) ==
  SharedBorrow("w_shared", h, wrapper_deref(Wrapper(h)))

WrapperDerefMut(h, v) ==
  MutBorrow("w_excl", h, wrapper_deref_mut(Wrapper(h)), v)

\* the caller releases a raw address it holds itself (T::free(raw))
ExternFree(a) ==
  /\ a \in raws
  /\ counter' = free(counter, a)
  /\ raws' = raws \ {a}
  /\ extFreed' = [extFreed EXCEPT ![a] = @ + 1]
  /\ last' = [op |-> "extern_free", h |-> 0, val |-> a, rd |-> NoVal, wr |-> NoVal]
  /\ UNCHANGED <<ptr, life, pointee, how, wrappedWith,
                 freed, freeArgs, breach>>

Next ==
  \/ \E h \in Handles, raw \in RawPtrs : FromRaw(h, raw)
  \/ \E h \in Handles : IntoRaw(h)
  \/ \E h \in Handles : Drop(h)
  \/ \E h \in Handles : AsPtr(h)
  \/ \E h \in Handles : AsRaw(h)
  \/ \E h \in Handles : Deref(h)
  \/ \E h \in Handles : AsRef(h)
  \/ \E h \in Handles : Borrow(h)
  \/ \E h \in Handles, v \in Values : DerefMut(h, v)
  \/ \E h \in Handles, v \in Values : AsMut(h, v)
  \/ \E h \in Handles, v \in Values : BorrowMut(h, v)
  \/ \E h \in Handles : WrapperAsRef(h)
  \/ \E h \in Handles : WrapperDeref(h)
  \/ \E h \in Handles, v \in Values : WrapperDerefMut(h, v)
  \/ \E a \in Addr : ExternFree(a)

Spec == Init /\ [][Next]_vars

\* -------------------------------------------------------------- claims

\* the live owners of address a
Owners(a) == {h \in Handles : life[h] = "Owning" /\ ptr[h].p0 = a}

\* the instances that were ever wrapped around a
WrappersOf(a) == {h \in Handles : wrappedWith[h] = a}

\* the instances wrapped around a whose owner was destroyed
DroppedOf(a) == {h \in Handles : wrappedWith[h] = a /\ how[h] = "drop"}

\* a is wrapped by h alone and the caller never released it itself
OnlyThrough(h, a) == WrappersOf(a) = {h} /\ extFreed[a] = 0

BorrowOps == {"peek", "shared", "excl"}

WrapperOps == {"w_shared", "w_excl"}

C1_State ==
  \A h \in Handles : how[h] = "drop" =>
    /\ freed[h] = 1
    /\ OnlyThrough(h, wrappedWith[h]) => counter[wrappedWith[h]] = 1

C1_Step ==
  \A h \in Handles : (how[h] = "none" /\ how'[h] = "drop") =>
    /\ freed[h] = 0 /\ freed'[h] = 1
    /\ counter'[ptr[h].p0] = counter[ptr[h].p0] + 1

\* C1: a handle wrapped with from_raw and never passed to into_raw releases
\* exactly once when its owner is destroyed: the Drop step makes one
\* Alloc::free call through the handle and raises the release counter of its
\* address by exactly one, so a counter that was 0 (an instance reached
\* through this handle alone) is exactly 1 afterwards, never 0 and never 2.
C1_DropReleasesExactlyOnce == [](C1_State) /\ [][C1_Step]_vars

C1_Witness ==
  \E h \in Handles :
    /\ how[h] = "drop" /\ wrappedWith[h] \in Addr
    /\ OnlyThrough(h, wrappedWith[h]) /\ counter[wrappedWith[h]] = 1

C2_State == last.op = "into_raw" => last.val = wrappedWith[last.h]

C2_Step == last'.op = "into_raw" => (counter' = counter /\ freed' = freed)

\* C2: into_raw(from_raw(p)) returns exactly p, and the into_raw step makes
\* no Alloc::free call: no release counter moves during the extraction.
C2_IntoRawReturnsWrapped == [](C2_State) /\ [][C2_Step]_vars

C2_Witness ==
  /\ last.op = "into_raw" /\ last.val \in Addr
  /\ counter[last.val] = 0

C3_State ==
  /\ \A h \in Handles : how[h] = "into_raw" => (freed[h] = 0 /\ life[h] = "Released")
  /\ \A a \in RawPtrs : counter[a] = extFreed[a] + Cardinality(DroppedOf(a))

C3_Step ==
  \A h \in Handles : how[h] = "into_raw" =>
    (how'[h] = "into_raw" /\ freed'[h] = freed[h] /\ life'[h] = "Released")

\* C3: once a handle has been consumed by into_raw, no later step releases
\* through it (it stays consumed, its Drop never runs).  The releases of an
\* address are exactly the caller's own releases plus one per dropped
\* handle, so an extracted address that the extractor releases once (and
\* wraps in no handle that is dropped) is released exactly once in all.
C3_NoReleaseAfterExtraction == [](C3_State) /\ [][C3_Step]_vars

C3_Witness ==
  \E h \in Handles :
    /\ how[h] = "into_raw" /\ wrappedWith[h] \in Addr
    /\ extFreed[wrappedWith[h]] = 1 /\ counter[wrappedWith[h]] = 1

C4_Step ==
  last'.op \in BorrowOps =>
    /\ ptr' = ptr /\ life' = life /\ how' = how
    /\ counter' = counter /\ freed' = freed /\ freeArgs' = freeArgs

\* C4: every borrow operation of a live Ptr (as_ptr, as_raw, deref,
\* deref_mut, as_ref, as_mut, borrow, borrow_mut), at any point of any run,
\* leaves the wrapped address, the handle's Owning state and the release
\* counts unchanged.
C4_BorrowsKeepOwnership == [][C4_Step]_vars

C4_Witness ==
  /\ last.op = "excl" /\ life[last.h] = "Owning"
  /\ \E g \in Handles : how[g] = "drop" /\ ptr[g].p0 = ptr[last.h].p0

\* C5 as stated: in every reachable state every address has at most one
\* live owner.
C5_AtMostOneOwner == \A a \in Addr : Cardinality(Owners(a)) <= 1

\* C5 amended: as long as every from_raw call was given an address the
\* caller held unowned (from the foreign constructor or from into_raw;
\* from_raw itself checks nothing), every address has at most one live
\* owner and no address the caller holds raw has an owner: into_raw consumes
\* its handle, so wrapping the extracted address again leaves one owner.
C5_OneOwnerUnderContract ==
  ~breach => \A a \in Addr :
    /\ Cardinality(Owners(a)) <= 1
    /\ a \in raws => Owners(a) = {}

C5_Witness ==
  /\ ~breach
  /\ \E h, g \in Handles :
       /\ how[h] = "into_raw" /\ wrappedWith[h] \in Addr
       /\ life[g] = "Owning" /\ ptr[g].p0 = wrappedWith[h]

\* C6 as stated: no live Ptr ever holds the null address.
C6_NeverNull == \A h \in Handles : life[h] = "Owning" => ptr[h].p0 # Null

\* C6 amended: from_raw wraps whatever it is given, null included; a live
\* Ptr holds null only if from_raw was called with null, and Drop calls
\* Alloc::free on null only for such a handle.  A handle wrapped around a
\* non-null address never holds null and never releases null.
C6_NullOnlyIfWrappedNull ==
  \A h \in Handles :
    /\ (life[h] = "Owning" /\ ptr[h].p0 = Null) => wrappedWith[h] = Null
    /\ Null \in freeArgs[h] => wrappedWith[h] = Null

C6_Witness ==
  \E h, g \in Handles :
    /\ how[h] = "drop" /\ wrappedWith[h] \in Addr /\ freeArgs[h] = {wrappedWith[h]}
    /\ life[g] = "Owning" /\ wrappedWith[g] \in Addr

C7_Step ==
  \A h \in Handles : (how[h] = "none" /\ how'[h] # "none") =>
    /\ \A g \in Handles \ {h} :
         /\ ptr'[g] = ptr[g] /\ life'[g] = life[g]
         /\ how'[g] = how[g] /\ freed'[g] = freed[g]
    /\ \A a \in RawPtrs \ {ptr[h].p0} : counter'[a] = counter[a]

C7_State ==
  \A h, g \in Handles :
    ( /\ h # g /\ how[h] = "drop" /\ how[g] = "drop"
      /\ wrappedWith[h] # wrappedWith[g]
      /\ OnlyThrough(h, wrappedWith[h]) /\ OnlyThrough(g, wrappedWith[g]) )
    => (counter[wrappedWith[h]] = 1 /\ counter[wrappedWith[g]] = 1)

\* C7: two handles wrapped around two distinct instances release
\* independently: dropping or extracting one handle changes neither the
\* other handle's address, state or release count nor the counter of any
\* other address, and once both are dropped, in either order, each
\* instance's counter is exactly one.
C7_IndependentRelease == [](C7_State) /\ [][C7_Step]_vars

C7_Witness ==
  \E h, g \in Handles :
    /\ h # g /\ how[h] = "drop" /\ how[g] = "drop"
    /\ wrappedWith[h] \in Addr /\ wrappedWith[g] \in Addr
    /\ wrappedWith[h] # wrappedWith[g]
    /\ counter[wrappedWith[h]] = 1 /\ counter[wrappedWith[g]] = 1

C8_State ==
  \A h \in Handles :
    /\ freed[h] <= 1
    /\ life[h] = "Released" <=> how[h] # "none"
    /\ how[h] = "drop" => freed[h] = 1
    /\ how[h] # "drop" => freed[h] = 0

C8_Step ==
  \A h \in Handles :
    /\ life[h] = "Released" =>
         (life'[h] = "Released" /\ how'[h] = how[h] /\ freed'[h] = freed[h])
    /\ life[h] = "Owning" => life'[h] \in {"Owning", "Released"}
    /\ life[h] = "Unborn" => life'[h] \in {"Unborn", "Owning"}

\* C8: every Ptr instance goes Owning -> Released once, by into_raw (no
\* Alloc::free call) or by Drop (one call), never by both; a Released
\* instance never becomes Owning again and nothing is released through it
\* any more, so Alloc::free is called at most once per instance.
C8_Lifecycle == [](C8_State) /\ [][C8_Step]_vars

C8_Witness ==
  \E h, g \in Handles : how[h] = "into_raw" /\ how[g] = "drop"

C9_Step ==
  /\ last'.op \in WrapperOps =>
       /\ last'.val = ptr[last'.h].p0
       /\ ptr' = ptr /\ life' = life
       /\ counter' = counter /\ freed' = freed
  /\ (last'.op = "w_shared" /\ Valid(ptr[last'.h].p0)) =>
       last'.rd = pointee[ptr[last'.h].p0]
  /\ (last'.op = "w_excl" /\ Valid(ptr[last'.h].p0)) =>
       pointee' = [pointee EXCEPT ![ptr[last'.h].p0] = last'.wr]
  /\ \A a \in Addr : pointee'[a] # pointee[a] =>
       (last'.op \in {"excl", "w_excl"} /\ ptr[last'.h].p0 = a)

\* C9: the deref, deref_mut and as_ref that impl_ptr! gives a wrapper refer
\* to the address of the embedded Ptr.  While that address has a pointee
\* (non-null, not released) a store through the wrapper's mutable borrow
\* lands in that pointee, a read through its read-only borrows returns that
\* pointee's value, and only a store through a mutable borrow of the same
\* address changes it: what was written is what every later read returns
\* until the next write.  The delegated borrows change no release count.
C9_WrapperDelegates == [][C9_Step]_vars

C9_Witness ==
  /\ last.op = "w_shared" /\ life[last.h] = "Owning"
  /\ Valid(ptr[last.h].p0) /\ last.rd = 1

C10_State ==
  /\ \A h \in Handles :
       /\ life[h] = "Owning" => ptr[h].p0 = wrappedWith[h]
       /\ how[h] = "drop" => freeArgs[h] = {wrappedWith[h]}
       /\ how[h] # "drop" => freeArgs[h] = {}
  /\ last.op \in BorrowOps => last.val = wrappedWith[last.h]

\* C10: the address a handle exposes and releases is the one it was wrapped
\* with: after from_raw(p) and any borrows, as_ptr and as_raw return p, the
\* references of deref/deref_mut and their aliases refer to p, and the
\* Alloc::free call of Drop has the argument p and no other.
C10_AddressIsWrappedAddress == C10_State

C10_Witness ==
  /\ last.op = "peek" /\ last.val \in Addr
  /\ \E g \in Handles :
       how[g] = "drop" /\ wrappedWith[g] \in Addr /\ freeArgs[g] = {wrappedWith[g]}

====
